---- MODULE Spec2Model ----
(***************************************************************************)
(* A model of the block file system of src/src/lib.rs, instantiated as the *)
(* repository's tests instantiate it:                                      *)
(*     FileSystem<16, 64, 255, 8, 512, 32, 8>      (make_small_fs)         *)
(* Buffers are functions over 0..n-1 so that every index is the source's   *)
(* index.  Every Rust function is an operator from the file-system value   *)
(* (a record of the struct's fields) to a record                           *)
(*     [fs |-> the value afterwards, ret |-> the result, panic |-> BOOLEAN]*)
(* and a panic (an index out of bounds, a block index the disk lacks) is   *)
(* carried outwards as it unwinds the call.                                *)
(***************************************************************************)
EXTENDS Integers, Sequences, FiniteSets, TLC

VARIABLES
    open,                   \* [Option<FileInfo>; MAX_OPEN]
    disk,                   \* RamDisk: NUM_BLOCKS blocks of BLOCK_SIZE bytes
    file_content_buffer,    \* the inode-table image
    directory_buffer,       \* the directory image
    open_inodes,            \* [bool; MAX_FILES_STORED]
    panicked,               \* a call has panicked: the value is gone
    last,                   \* the last call and what it returned
    hist,                   \* observer: what the caller has done so far
    calls_left              \* number of calls the caller may still make

vars == <<open, disk, file_content_buffer, directory_buffer, open_inodes,
          panicked, last, hist, calls_left>>

---------------------------------------------------------------------------
(* The generic parameters of make_small_fs. *)
MAX_OPEN == 16
BLOCK_SIZE == 64
NUM_BLOCKS == 255
MAX_FILE_BLOCKS == 8
MAX_FILE_BYTES == 512
MAX_FILES_STORED == 32
MAX_FILENAME_BYTES == 8

INODE_FULL_BLOCK == 0
DATA_FULL_BLOCK == INODE_FULL_BLOCK + 1
INODE_TABLE_START == DATA_FULL_BLOCK + 1

U8_MAX == 255

max_file_size == MAX_FILE_BLOCKS * BLOCK_SIZE
num_inode_bytes == 2 + MAX_FILE_BLOCKS
inodes_per_block == BLOCK_SIZE \div num_inode_bytes
num_inode_blocks == MAX_FILES_STORED \div inodes_per_block
num_data_blocks == NUM_BLOCKS - num_inode_blocks - 2
first_data_block == 2 + num_inode_blocks

---------------------------------------------------------------------------
(* Bytes, arrays and bits. *)
Byte == 0..U8_MAX

Fill(n, v) == [i \in 0..(n - 1) |-> v]

Contains(arr, v) == \E i \in DOMAIN arr : arr[i] = v

Pow2(j) == CASE j = 0 -> 1 [] j = 1 -> 2 [] j = 2 -> 4 [] j = 3 -> 8
             [] j = 4 -> 16 [] j = 5 -> 32 [] j = 6 -> 64 [] j = 7 -> 128

\* b & (1 << j) != 0
BitSet(b, j) == (b \div Pow2(j)) % 2 = 1

\* b | (1 << j)
OrBit(b, j) == IF BitSet(b, j) THEN b ELSE b + Pow2(j)

\* number of 1-bits of a byte, of a block
ByteOnes(b) == Cardinality({j \in 0..7 : BitSet(b, j)})

RECURSIVE OnesUpTo(_, _)
OnesUpTo(buf, n) == IF n < 0 THEN 0 ELSE ByteOnes(buf[n]) + OnesUpTo(buf, n - 1)

BlockOnes(buf) == OnesUpTo(buf, BLOCK_SIZE - 1)

\* the values a..b-1 of a Rust range a..b, in order
RangeSeq(a, b) == [k \in 1..(IF b > a THEN b - a ELSE 0) |-> a + k - 1]

\* filename.chars() into ['\0'; MAX_FILENAME_BYTES]; the name is a sequence
\* of ASCII codes.  Writing past the array panics.
NameTooLongForBuffer(filename) == Len(filename) > MAX_FILENAME_BYTES

namebuffer(filename) ==
    [i \in 0..(MAX_FILENAME_BYTES - 1) |->
        IF i < Len(filename) THEN filename[i + 1] ELSE 0]

---------------------------------------------------------------------------
(* The file-system value and the results of calls. *)
None == [none |-> TRUE]

Ok(v) == [ok |-> TRUE, val |-> v]
Err(e) == [ok |-> FALSE, err |-> e]
Unit == "unit"

Done(fs, ret) == [fs |-> fs, ret |-> ret, panic |-> FALSE]
Panic(fs) == [fs |-> fs, ret |-> "panic", panic |-> TRUE]

\* RamDisk::read / RamDisk::write (the ramdisk crate): a block index the
\* disk does not have is an index out of bounds.
ValidBlock(b) == b \in 0..(NUM_BLOCKS - 1)

disk_write(fs, b, buf) == [fs EXCEPT !.disk[b] = buf]

---------------------------------------------------------------------------
(* Inode-table I/O. *)

\* get_inode_table: blocks 2..2+num_inode_blocks into the image, block i at
\* image offset i * BLOCK_SIZE.
get_inode_table(fs) ==
    [fs EXCEPT !.file_content_buffer =
        [k \in 0..(MAX_FILE_BYTES - 1) |->
            IF k < num_inode_blocks * BLOCK_SIZE
            THEN fs.disk[(k \div BLOCK_SIZE) + 2][k % BLOCK_SIZE]
            ELSE fs.file_content_buffer[k]]]

\* write_to_inode_table's loop visits image bytes tc = 0..total-1 and keeps
\* `count`, the position in the block being built.  A byte is copied to
\* inode_table_buffer[count] unless count + 1 = BLOCK_SIZE; then the block
\* is written instead (its last byte still 0), the byte is dropped, and
\* count restarts at 0 and is at once incremented to 1.  So the k-th block
\* written (k = 0, 1, ...) is written at tc = (k + 1) * (BLOCK_SIZE - 1), and
\* holds image byte k * (BLOCK_SIZE - 1) + j at position j, for
\* j = 1..BLOCK_SIZE-2 (and j = 0 for k = 0); the bytes after the last such
\* tc are never written.
inode_table_total == MAX_FILES_STORED * num_inode_bytes

inode_table_iterations ==
    IF inode_table_total < MAX_FILE_BYTES THEN inode_table_total ELSE MAX_FILE_BYTES

\* the number of disk.write calls of the loop
inode_table_writes == (inode_table_iterations - 1) \div (BLOCK_SIZE - 1)

inode_table_buffer(image, k) ==
    [j \in 0..(BLOCK_SIZE - 1) |->
        IF j = BLOCK_SIZE - 1 THEN 0
        ELSE IF j = 0 THEN (IF k = 0 THEN image[0] ELSE 0)
        ELSE image[k * (BLOCK_SIZE - 1) + j]]

write_to_inode_table(fs, start_block) ==
    IF \E k \in 0..(inode_table_writes - 1) : ~ValidBlock(start_block + k)
    THEN Panic(fs)
    ELSE Done([fs EXCEPT !.disk =
                 [b \in 0..(NUM_BLOCKS - 1) |->
                     IF b >= start_block /\ b < start_block + inode_table_writes
                     THEN inode_table_buffer(fs.file_content_buffer, b - start_block)
                     ELSE fs.disk[b]]],
              fs.file_content_buffer)

\* add_new_data_to_inode: the position to overwrite is the last one whose
\* value differs from its predecessor's, scanning until the first value
\* equal to its predecessor (inode_start + 3 when the scan stops at once).
RECURSIVE append_index(_, _, _, _, _)
append_index(image, i, stop, last_block, index) ==
    IF i >= stop THEN index
    ELSE IF image[i] = last_block THEN index
    ELSE append_index(image, i + 1, stop, image[i], i)

\* the append with `index` left at its initial value, inode_start + 3
add_new_data_to_inode_at_start(fs, inode_num, new_data_block) ==
    LET inode_start == inode_num * num_inode_bytes
        fs1 == [fs EXCEPT !.file_content_buffer[inode_start + 3] = new_data_block]
    IN  write_to_inode_table(fs1, 2 + (inode_start \div BLOCK_SIZE))

add_new_data_to_inode(fs, inode_num, new_data_block) ==
    LET inode_start == inode_num * num_inode_bytes
        index == append_index(fs.file_content_buffer, inode_start + 3,
                              inode_start + num_inode_bytes,
                              fs.file_content_buffer[inode_start + 2],
                              inode_start + 3)
        fs1 == [fs EXCEPT !.file_content_buffer[index] = new_data_block]
    IN  write_to_inode_table(fs1, 2 + (inode_start \div BLOCK_SIZE))

---------------------------------------------------------------------------
(* The two bitmaps. *)

\* return_open_inode / return_open_data: the first zero bit of the block,
\* as [byte index, bit index, linear index]; `count` is a u8.
NotFull(buf) == {i \in 0..(BLOCK_SIZE - 1) : buf[i] # U8_MAX}

ZeroBits(b) == {j \in 0..7 : ~BitSet(b, j)}

Least(S) == CHOOSE n \in S : \A m \in S : n <= m

\* `count += 1` runs once per 1-bit passed; the tests' build (the code is run
\* through its unit tests only, line 1036) checks arithmetic overflow, so
\* passing 256 one-bits panics before the fall-through return is reached.
first_zero_bit(buf) ==
    IF NotFull(buf) = {} THEN [panic |-> TRUE, block_bit |-> <<0, 0, 0>>]
    ELSE LET block == Least(NotFull(buf))
             bit == Least(ZeroBits(buf[block]))
             count == block * 8 + bit
         IN  IF count > U8_MAX THEN [panic |-> TRUE, block_bit |-> <<0, 0, 0>>]
             ELSE [panic |-> FALSE, block_bit |-> <<block, bit, count>>]

return_open_inode(fs) == first_zero_bit(fs.disk[0])

return_open_data(fs) == first_zero_bit(fs.disk[1])

---------------------------------------------------------------------------
(* The directory. *)

\* The loop `for block in image[2]..image[num_inode_bytes]` walks a range of
\* u8 VALUES, from inode 0's first block to the first byte of inode 1, and
\* collects those not yet in dir_blocks (which starts as zeros, so 0 is never
\* collected).  A ninth collected value indexes past the array.
dir_range(image) ==
    SelectSeq(RangeSeq(image[2], image[num_inode_bytes]), LAMBDA b : b # 0)

dir_blocks_of(image) ==
    [i \in 0..(MAX_FILE_BLOCKS - 1) |->
        IF i < Len(dir_range(image)) THEN dir_range(image)[i + 1] ELSE 0]

\* the blocks read into the directory image, block i at offset BLOCK_SIZE * i
load_dir_blocks(fs, dir_blocks, n) ==
    [fs EXCEPT !.directory_buffer =
        [k \in 0..(MAX_FILE_BYTES - 1) |->
            IF k \div BLOCK_SIZE < n
            THEN fs.disk[dir_blocks[k \div BLOCK_SIZE]][k % BLOCK_SIZE]
            ELSE fs.directory_buffer[k]]]

get_directory(fs) ==
    LET fs1 == get_inode_table(fs)
        count == Len(dir_range(fs1.file_content_buffer))
    IN  IF count > MAX_FILE_BLOCKS THEN Panic(fs1)
        ELSE Done(load_dir_blocks(fs1, dir_blocks_of(fs1.file_content_buffer), count),
                  Unit)

\* write_to_dir: `blocks` is dir_blocks without repeats, padded with its
\* first entry; the loop is write_to_inode_table's loop over the directory
\* image, stopping when the next block is 0 and indexing past `blocks` after
\* its last entry.
RECURSIVE dedup_into(_, _, _, _)
dedup_into(src, i, acc, n) ==
    IF i >= MAX_FILE_BLOCKS THEN acc
    ELSE IF Contains(acc, src[i]) THEN dedup_into(src, i + 1, acc, n)
    ELSE dedup_into(src, i + 1, [acc EXCEPT ![n] = src[i]], n + 1)

dir_writes == (MAX_FILE_BYTES - 1) \div (BLOCK_SIZE - 1)

\* how many blocks the loop writes: it stops at the first 0 in `blocks`
RECURSIVE dir_written(_, _)
dir_written(blocks, k) ==
    IF k >= dir_writes \/ k >= MAX_FILE_BLOCKS THEN k
    ELSE IF blocks[k] = 0 THEN k
    ELSE dir_written(blocks, k + 1)

write_to_dir(fs, dir_blocks) ==
    LET blocks == dedup_into(dir_blocks, 0, Fill(MAX_FILE_BLOCKS, dir_blocks[0]), 1)
        n == dir_written(blocks, 0)
    IN  IF \E k \in 0..(n - 1) : ~ValidBlock(blocks[k]) THEN Panic(fs)
        ELSE IF n = MAX_FILE_BLOCKS THEN Panic(fs)   \* blocks[MAX_FILE_BLOCKS]
        ELSE Done([fs EXCEPT !.disk =
                     [b \in 0..(NUM_BLOCKS - 1) |->
                         IF \E k \in 0..(n - 1) : blocks[k] = b
                         THEN inode_table_buffer(fs.directory_buffer,
                                 CHOOSE k \in 0..(n - 1) :
                                     /\ blocks[k] = b
                                     /\ \A m \in 0..(n - 1) : blocks[m] = b => m <= k)
                         ELSE fs.disk[b]]],
                  fs.directory_buffer)

\* The lookup loop shared by open_read, open_create and open_append.  The
\* loop compares the image byte by byte with the name: a mismatch sets
\* `ignore` until the next multiple of MAX_FILENAME_BYTES, where char_spot
\* restarts at 0 and name_spot counts one slot more; char_spot reaching
\* MAX_FILENAME_BYTES ends the loop with found_inode, whether or not that
\* last comparison matched (name_flag is never cleared).  So a slot is
\* entered with char_spot = 0 and name_spot = its index, and it is found iff
\* its first MAX_FILENAME_BYTES - 1 bytes equal the name's.
name_flag == TRUE

slot_matches(dirb, nb, slot) ==
    /\ \A p \in 0..(MAX_FILENAME_BYTES - 2) :
           dirb[slot * MAX_FILENAME_BYTES + p] = nb[p]
    /\ name_flag

RECURSIVE lookup_from(_, _, _)
lookup_from(dirb, nb, name_spot) ==
    IF (name_spot + 1) * MAX_FILENAME_BYTES > MAX_FILE_BYTES
    THEN [found_inode |-> FALSE, name_spot |-> name_spot]
    ELSE IF slot_matches(dirb, nb, name_spot)
    THEN [found_inode |-> TRUE, name_spot |-> name_spot + 1]
    ELSE lookup_from(dirb, nb, name_spot + 1)

lookup(fs, filename) ==
    lookup_from(fs.directory_buffer, namebuffer(filename), 0)

---------------------------------------------------------------------------
(* The open table. *)

FileInfo(inode, inode_num, current_block, offset, writing, reading, block_buffer) ==
    [none |-> FALSE, inode |-> inode, inode_num |-> inode_num,
     current_block |-> current_block, offset |-> offset,
     writing |-> writing, reading |-> reading, block_buffer |-> block_buffer]

Inode(bytes_stored, blocks) == [bytes_stored |-> bytes_stored, blocks |-> blocks]

FreeSlots(fs) == {i \in 0..(MAX_OPEN - 1) : fs.open[i].none}

\* `for i in self.open { if i.is_none() { self.open[fd] = ..; break } fd += 1 }`:
\* the first empty slot, or MAX_OPEN with nothing stored when there is none.
first_free_fd(fs) ==
    IF FreeSlots(fs) = {} THEN MAX_OPEN
    ELSE CHOOSE i \in FreeSlots(fs) : \A j \in FreeSlots(fs) : i <= j

assign_slot(fs, file_table_entry) ==
    IF first_free_fd(fs) = MAX_OPEN THEN fs
    ELSE [fs EXCEPT !.open[first_free_fd(fs)] = file_table_entry]

\* the inode's blocks without repeats, zero-padded (open_create's re-create
\* branch and open_append build their snapshot so)
RECURSIVE distinct_into(_, _, _, _, _)
distinct_into(image, i, stop, acc, n) ==
    IF i >= stop THEN acc
    ELSE IF Contains(acc, image[i]) THEN distinct_into(image, i + 1, stop, acc, n)
    ELSE distinct_into(image, i + 1, stop, [acc EXCEPT ![n] = image[i]], n + 1)

distinct_blocks(image, inode_start) ==
    distinct_into(image, inode_start + 2, inode_start + num_inode_bytes,
                  Fill(MAX_FILE_BLOCKS, 0), 0)

---------------------------------------------------------------------------
(* open_read *)

open_read_found(fs, name_spot) ==
    IF name_spot >= MAX_FILES_STORED THEN Panic(fs)         \* open_inodes[name_spot]
    ELSE IF fs.open_inodes[name_spot] THEN Done(fs, Err("AlreadyOpen"))
    ELSE
    LET image == fs.file_content_buffer
        inode_start == name_spot * num_inode_bytes
        data == image[inode_start] * 256 + image[inode_start + 1]
        first == image[inode_start + 2]
        \* the range first..image[inode_start + num_inode_bytes] of u8 values:
        \* `first` is in the array already, every later value is new
        new == Len(RangeSeq(first, image[inode_start + num_inode_bytes])) - 1
        inode_blocks == [k \in 0..(MAX_FILE_BLOCKS - 1) |->
                            IF k >= 1 /\ k <= new THEN first + k ELSE first]
        entry == FileInfo(Inode(data, inode_blocks), name_spot, first, 0,
                          FALSE, TRUE, fs.disk[first])
    IN  IF new >= MAX_FILE_BLOCKS THEN Panic(fs)            \* inode_blocks[c]
        ELSE IF ~ValidBlock(first) THEN Panic(fs)
        ELSE Done(assign_slot([fs EXCEPT !.open_inodes[name_spot] = TRUE], entry),
                  Ok(first_free_fd(fs)))

open_read(fs, filename) ==
    LET d == get_directory(fs)
        l == lookup(d.fs, filename)
    IN  IF d.panic THEN d
        ELSE IF NameTooLongForBuffer(filename) THEN Panic(d.fs)
        ELSE IF l.found_inode THEN open_read_found(d.fs, l.name_spot)
        ELSE Done(d.fs, Err("FileNotFound"))

---------------------------------------------------------------------------
(* open_create *)

\* lines 250-281: the first create on a disk whose inode bitmap has bit 0
\* clear marks data bits 0..active_blocks, sets byte 0 of the inode bitmap
\* to 1 and writes inode 0 = (0, [first data block; MAX_FILE_BLOCKS]).
RECURSIVE or_bits(_, _, _)
or_bits(buf, i, stop) ==
    IF i >= stop THEN buf
    ELSE or_bits([buf EXCEPT ![i \div 8] = OrBit(buf[i \div 8], i % 8)], i + 1, stop)

needs_bootstrap(fs) == ~BitSet(fs.disk[INODE_FULL_BLOCK][0], 0)

bootstrap_data_bitmap(buffer2) == or_bits(buffer2, 0, 2 + num_inode_blocks + 1)

bootstrap(fs) ==
    LET buffer2 == bootstrap_data_bitmap(fs.disk[DATA_FULL_BLOCK])
        buffer == [fs.disk[INODE_FULL_BLOCK] EXCEPT ![0] = 1]
        data_block == 2 + num_inode_blocks
        inode_buffer == [j \in 0..(BLOCK_SIZE - 1) |->
                            IF j < 2 THEN 0
                            ELSE IF j < 2 + MAX_FILE_BLOCKS THEN data_block
                            ELSE fs.disk[INODE_TABLE_START][j]]
    IN  [fs EXCEPT !.disk = [fs.disk EXCEPT ![DATA_FULL_BLOCK] = buffer2,
                                            ![INODE_FULL_BLOCK] = buffer,
                                            ![INODE_TABLE_START] = inode_buffer]]

\* lines 283-292: `for i in 2..num_inode_blocks()` copies blocks
\* 2..num_inode_blocks-1 to the head of the image (get_directory reloads it)
load_inode_blocks_from_2(fs) ==
    [fs EXCEPT !.file_content_buffer =
        [k \in 0..(MAX_FILE_BYTES - 1) |->
            IF 2 + (k \div BLOCK_SIZE) < num_inode_blocks
            THEN fs.disk[2 + (k \div BLOCK_SIZE)][k % BLOCK_SIZE]
            ELSE fs.file_content_buffer[k]]]

\* lines 351-416: the name was found under inode_num: the inode's length is
\* zeroed and every blocks entry set to the first; the data bitmap is read
\* and written back as read; the per-inode open flag is not set.
recreate_image(image, inode_start) ==
    [k \in 0..(MAX_FILE_BYTES - 1) |->
        IF k >= inode_start /\ k < inode_start + 2 THEN 0
        ELSE IF k > inode_start + 2 /\ k < inode_start + num_inode_bytes
        THEN image[inode_start + 2]
        ELSE image[k]]

open_create_found(fs, inode_num) ==
    IF inode_num >= MAX_FILES_STORED THEN Panic(fs)
    ELSE IF fs.open_inodes[inode_num] THEN Done(fs, Err("AlreadyOpen"))
    ELSE
    LET inode_start == inode_num * num_inode_bytes
        fs1 == [fs EXCEPT !.file_content_buffer =
                   recreate_image(fs.file_content_buffer, inode_start)]
        w == write_to_inode_table(fs1, 2)
        image == w.fs.file_content_buffer
        data == image[inode_start] * 256 + image[inode_start + 1]
        inode_blocks == distinct_blocks(image, inode_start)
        entry == FileInfo(Inode(data, inode_blocks), inode_num, inode_blocks[0], 0,
                          FALSE, FALSE, w.fs.disk[inode_blocks[0]])
    IN  IF w.panic THEN w
        ELSE IF ~ValidBlock(inode_blocks[0]) THEN Panic(w.fs)
        ELSE Done(assign_slot(w.fs, entry), Ok(first_free_fd(w.fs)))

\* lines 457-467: the directory gets a further block when the name's slot
\* does not fit in the block it starts in
dir_index(inode_num) == MAX_FILENAME_BYTES * (inode_num - 1)
index_start(inode_num) == dir_index(inode_num) % BLOCK_SIZE
dir_needs_block(inode_num) == BLOCK_SIZE - index_start(inode_num) < MAX_FILENAME_BYTES

grow_directory(fs, buffer2) ==
    LET new_dblock == return_open_data(fs)
        bb == new_dblock.block_bit
        buffer2b == [buffer2 EXCEPT ![bb[1]] = OrBit(buffer2[bb[1]], bb[2])]
        a == add_new_data_to_inode(fs, 0, bb[3])
    IN  IF new_dblock.panic THEN Panic(fs)
        ELSE IF a.panic THEN a
        ELSE Done(disk_write(a.fs, 1, buffer2b), Unit)

\* lines 469-500: reload the directory, put the name at index_start, store
insert_name(fs, filename, inode_num) ==
    LET image == fs.file_content_buffer
        count == Len(dir_range(image))
        dir_blocks == dir_blocks_of(image)
        fs1 == load_dir_blocks(fs, dir_blocks, count)
        fs2 == [fs1 EXCEPT !.directory_buffer =
                   [k \in 0..(MAX_FILE_BYTES - 1) |->
                       IF k >= index_start(inode_num)
                          /\ k < index_start(inode_num) + MAX_FILENAME_BYTES
                       THEN namebuffer(filename)[k - index_start(inode_num)]
                       ELSE fs1.directory_buffer[k]]]
    IN  IF count > MAX_FILE_BLOCKS THEN Panic(fs) ELSE write_to_dir(fs2, dir_blocks)

\* lines 417-523: the name was not found
open_create_new(fs, filename, buffer2_in) ==
    IF buffer2_in[BLOCK_SIZE - 1] = U8_MAX THEN Done(fs, Err("DiskFull"))
    ELSE
    LET inode_stuff == return_open_inode(fs)
        inode_num == inode_stuff.block_bit[3]
        buffer == [fs.disk[0] EXCEPT ![inode_stuff.block_bit[1]] =
                       OrBit(@, inode_stuff.block_bit[2])]
        fs1 == disk_write(fs, 0, buffer)
        data_block == return_open_data(fs1)
        db == data_block.block_bit
        buffer2 == [fs1.disk[1] EXCEPT ![db[1]] = OrBit(@, db[2])]
        block0 == db[3]
        inode_start == inode_num * num_inode_bytes
        iblock == 2 + (inode_start \div BLOCK_SIZE)
        fs2 == disk_write(fs1, 1, buffer2)
        inode_blocks == Fill(MAX_FILE_BLOCKS, block0)
        fs3 == [fs2 EXCEPT !.file_content_buffer =
                   [k \in 0..(MAX_FILE_BYTES - 1) |->
                       IF k >= inode_start /\ k < inode_start + 2 THEN 0
                       ELSE IF k >= inode_start + 2 /\ k < inode_start + num_inode_bytes
                       THEN block0
                       ELSE fs2.file_content_buffer[k]]]
        w == write_to_inode_table(fs3, iblock)
        g == IF dir_needs_block(inode_num) THEN grow_directory(w.fs, buffer2)
             ELSE Done(w.fs, Unit)
        d == insert_name(g.fs, filename, inode_num)
        entry == FileInfo(Inode(0, inode_blocks), inode_num, block0, 0,
                          FALSE, FALSE, d.fs.disk[block0])
    IN  IF inode_stuff.panic THEN Panic(fs)
        ELSE IF inode_num = MAX_FILES_STORED % (U8_MAX + 1)
        THEN Done(fs, Err("TooManyFiles"))
        ELSE IF data_block.panic THEN Panic(fs1)
        ELSE IF inode_start + num_inode_bytes > MAX_FILE_BYTES THEN Panic(fs2)
        ELSE IF w.panic THEN w
        ELSE IF g.panic THEN Panic(g.fs)
        ELSE IF d.panic THEN Panic(d.fs)
        ELSE IF ~ValidBlock(block0) THEN Panic(d.fs)
        ELSE IF inode_num >= MAX_FILES_STORED THEN Panic(d.fs)
        ELSE Done([assign_slot(d.fs, entry) EXCEPT !.open_inodes[inode_num] = TRUE],
                  Ok(first_free_fd(d.fs)))

name_too_long_after_bootstrap(fs) ==
    Done(IF needs_bootstrap(fs) THEN bootstrap(fs) ELSE fs, Err("FilenameTooLong"))

\* lines 240-242, before the disk is read
name_too_long(fs) == Done(fs, Err("FilenameTooLong"))

open_create(fs, filename) ==
    IF Len(filename) > MAX_FILENAME_BYTES THEN name_too_long(fs)
    ELSE
    LET fs1 == IF needs_bootstrap(fs) THEN bootstrap(fs) ELSE fs
        \* buffer2: the data bitmap as read at line 248, with the bootstrap's bits
        buffer2 == fs1.disk[DATA_FULL_BLOCK]
        d == get_directory(load_inode_blocks_from_2(fs1))
        l == lookup(d.fs, filename)
        inode_num == IF l.found_inode THEN l.name_spot ELSE 0
    IN  IF d.panic THEN d
        ELSE IF inode_num # 0 THEN open_create_found(d.fs, inode_num)
        ELSE open_create_new(d.fs, filename, buffer2)

---------------------------------------------------------------------------
(* open_append *)

\* the number of leading non-zero entries (lines 757-765)
RECURSIVE leading_nonzero(_, _)
leading_nonzero(arr, i) ==
    IF i \notin DOMAIN arr THEN i
    ELSE IF arr[i] = 0 THEN i
    ELSE leading_nonzero(arr, i + 1)

\* the index of the first zero byte, 0 when there is none (lines 777-783)
first_zero_offset(buf) ==
    IF leading_nonzero(buf, 0) >= BLOCK_SIZE THEN 0 ELSE leading_nonzero(buf, 0)

open_append_found(fs, name_spot) ==
    IF name_spot >= MAX_FILES_STORED THEN Panic(fs)
    ELSE IF fs.open_inodes[name_spot] THEN Done(fs, Err("AlreadyOpen"))
    ELSE
    LET image == fs.file_content_buffer
        inode_start == name_spot * num_inode_bytes
        data == image[inode_start] * 256 + image[inode_start + 1]
        inode_blocks == distinct_blocks(image, inode_start)
        c2 == leading_nonzero(inode_blocks, 0)
        current == IF c2 # 0 THEN inode_blocks[c2 - 1] ELSE inode_blocks[c2]
        entry == FileInfo(Inode(data, inode_blocks), name_spot, current,
                          first_zero_offset(fs.disk[current]),
                          TRUE, FALSE, fs.disk[current])
    IN  IF ~ValidBlock(current) THEN Panic(fs)
        ELSE Done(assign_slot([fs EXCEPT !.open_inodes[name_spot] = TRUE], entry),
                  Ok(first_free_fd(fs)))

open_append(fs, filename) ==
    LET d == get_directory(fs)
        l == lookup(d.fs, filename)
    IN  IF d.panic THEN d
        ELSE IF NameTooLongForBuffer(filename) THEN Panic(d.fs)
        ELSE IF l.found_inode THEN open_append_found(d.fs, l.name_spot)
        ELSE Done(d.fs, Err("FileNotFound"))

---------------------------------------------------------------------------
(* read *)

\* lines 831-843: unique_blocks starts as zeros and is filled from index 1;
\* used_blocks is the index at which current_block was stored.  A block
\* stored at index MAX_FILE_BLOCKS is out of bounds.
RECURSIVE unique_scan(_, _, _, _, _, _, _)
unique_scan(image, i, stop, block, unique_blocks, count, used_blocks) ==
    IF i >= stop
    THEN [panic |-> FALSE, unique_blocks |-> unique_blocks, count |-> count,
          used_blocks |-> used_blocks]
    ELSE IF Contains(unique_blocks, image[i])
    THEN unique_scan(image, i + 1, stop, block, unique_blocks, count, used_blocks)
    ELSE IF count >= MAX_FILE_BLOCKS
    THEN [panic |-> TRUE, unique_blocks |-> unique_blocks, count |-> count,
          used_blocks |-> used_blocks]
    ELSE unique_scan(image, i + 1, stop, block,
                     [unique_blocks EXCEPT ![count] = image[i]], count + 1,
                     IF block = image[i] THEN count ELSE used_blocks)

\* lines 845-870.  The loop copies a byte per position of the caller's
\* buffer until the buffer is full or the byte at `offset` is zero; one call
\* here is the run of iterations inside one block: the bytes at offset..
\* BLOCK_SIZE-2 as far as they are non-zero and the buffer has room, then,
\* at offset BLOCK_SIZE-1, the last byte and the step to the next entry of
\* unique_blocks (out of bounds after the last).  `out` is buffer[0..i).
block_run(buf, offset, room) ==
    LET stop == leading_nonzero([j \in 0..(BLOCK_SIZE - 2) |->
                                    IF j < offset THEN 1 ELSE buf[j]], offset)
    IN  IF stop - offset > room THEN room ELSE stop - offset

RECURSIVE read_loop(_, _, _, _, _, _, _)
read_loop(fs, len, u, used_blocks, block, file, out) ==
    IF Len(out) >= len \/ u.count = used_blocks
    THEN [panic |-> FALSE, file |-> file, out |-> out]
    ELSE IF ~ValidBlock(block) THEN [panic |-> TRUE, file |-> file, out |-> out]
    ELSE
    LET buf == fs.disk[block]
        n == block_run(buf, file.offset, len - Len(out))
        out1 == out \o [k \in 1..n |-> buf[file.offset + k - 1]]
        offset1 == file.offset + n
    IN  IF Len(out1) >= len \/ buf[offset1] = 0 \/ offset1 < BLOCK_SIZE - 1
        THEN [panic |-> FALSE, file |-> [file EXCEPT !.offset = offset1], out |-> out1]
        ELSE IF used_blocks + 1 >= MAX_FILE_BLOCKS
        THEN [panic |-> TRUE, file |-> file, out |-> out1]
        ELSE read_loop(fs, len, u, used_blocks + 1,
                       u.unique_blocks[used_blocks + 1],
                       [file EXCEPT !.current_block = u.unique_blocks[used_blocks + 1],
                                    !.offset = 0],
                       Append(out1, buf[offset1]))

\* read(fd, buffer) with buffer.len() = len; Ok carries bytes_read and the
\* bytes stored in the buffer
read(fs, fd, len) ==
    IF fd >= MAX_OPEN THEN Panic(fs)
    ELSE IF fs.open[fd].none THEN Done(fs, Err("FileNotOpen"))
    ELSE IF fs.open[fd].writing THEN Done(fs, Err("NotOpenForRead"))
    ELSE
    LET file == fs.open[fd]
        inode_start == file.inode_num * num_inode_bytes + 2
        inode_stop == file.inode_num * num_inode_bytes + num_inode_bytes
        u == unique_scan(fs.file_content_buffer, inode_start, inode_stop,
                         file.current_block, Fill(MAX_FILE_BLOCKS, 0), 1, 0)
        r == read_loop(fs, len, u, u.used_blocks, file.current_block, file, <<>>)
    IN  IF u.panic \/ r.panic THEN Panic(fs)
        ELSE Done([fs EXCEPT !.open[fd] = r.file],
                  Ok([bytes_read |-> Len(r.out), bytes |-> r.out]))

---------------------------------------------------------------------------
(* write *)

\* lines 891-906: DiskFull when bytes 0..NUM_BLOCKS/MAX_FILE_BLOCKS of the
\* data bitmap (or all of them) are u8::MAX
disk_full_flag(datatable) ==
    \A i \in 0..(BLOCK_SIZE - 1) :
        i <= NUM_BLOCKS \div MAX_FILE_BLOCKS => datatable[i] = U8_MAX

\* lines 930-956.  One call here is the run of iterations that fill the
\* current block buffer: the disk is not written inside a run, so the
\* FileTooBig test of lines 931-937 reads the same byte before each of its
\* bytes; a run that brings offset to BLOCK_SIZE ends with the flush, the
\* allocation and the inode update of lines 943-955.  i is the index of the
\* next byte of the caller's buffer (from 1); datatable and file are the
\* call's local copies of the data bitmap and of the open entry.
\* the test of lines 931-937 as it would be if it looked at the last byte of
\* the block instead of the one before it
file_too_big_at_end(fs, blocks) ==
    fs.disk[blocks[MAX_FILE_BLOCKS - 1]][BLOCK_SIZE - 1] # 0

\* lines 931-937: with no room left in the inode, a byte is refused once the
\* last block of `blocks` holds a byte at BLOCK_SIZE - 2
file_too_big(fs, blocks) ==
    fs.disk[blocks[MAX_FILE_BLOCKS - 1]][BLOCK_SIZE - 2] # 0

RECURSIVE write_loop(_, _, _, _, _, _, _)
write_loop(fs, datatable, file, buffer, i, block_full_flag, blocks) ==
    IF i > Len(buffer)
    THEN [panic |-> FALSE, err |-> FALSE, fs |-> fs, file |-> file]
    ELSE IF block_full_flag /\ ~ValidBlock(blocks[MAX_FILE_BLOCKS - 1])
    THEN [panic |-> TRUE, err |-> FALSE, fs |-> fs, file |-> file]
    ELSE IF block_full_flag /\ file_too_big(fs, blocks)
    THEN [panic |-> FALSE, err |-> TRUE, fs |-> fs, file |-> file]
    ELSE
    LET room == BLOCK_SIZE - file.offset
        left == Len(buffer) - i + 1
        n == IF left < room THEN left ELSE room
        block_buffer == [j \in 0..(BLOCK_SIZE - 1) |->
                            IF j >= file.offset /\ j < file.offset + n
                            THEN buffer[i + (j - file.offset)]
                            ELSE file.block_buffer[j]]
        offset == file.offset + n
    IN  IF offset # BLOCK_SIZE
        THEN write_loop(fs, datatable,
                        [file EXCEPT !.block_buffer = block_buffer, !.offset = offset],
                        buffer, i + n, block_full_flag, blocks)
        ELSE IF ~ValidBlock(file.current_block)
        THEN [panic |-> TRUE, err |-> FALSE, fs |-> fs, file |-> file]
        ELSE
        LET fs1 == disk_write(fs, file.current_block, block_buffer)
            new_block == return_open_data(fs1)
            nb == new_block.block_bit
            datatable1 == [datatable EXCEPT ![nb[1]] = OrBit(@, nb[2])]
            fs2 == disk_write(fs1, 1, datatable1)
            a == add_new_data_to_inode(fs2, file.inode_num, nb[3])
        IN  IF new_block.panic \/ a.panic
            THEN [panic |-> TRUE, err |-> FALSE, fs |-> fs1, file |-> file]
            ELSE write_loop(a.fs, datatable1,
                            [file EXCEPT !.block_buffer = Fill(BLOCK_SIZE, 0),
                                         !.offset = 0,
                                         !.current_block = nb[3]],
                            buffer, i + n, block_full_flag, blocks)

\* the entry as the call leaves it when it ends before line 927
write_flag_unset(file) == file

\* `file_to_write_to.writing = true;` (line 927)
write_flag(file) == [file EXCEPT !.writing = TRUE]

write(fs, fd, buffer) ==
    IF fd >= MAX_OPEN THEN Panic(fs)
    ELSE IF fs.open[fd].none THEN Done(fs, Err("FileNotOpen"))
    ELSE IF fs.open[fd].reading THEN Done(fs, Err("NotOpenForWrite"))
    ELSE IF disk_full_flag(fs.disk[1]) THEN Done(fs, Err("DiskFull"))
    ELSE
    LET file == write_flag(fs.open[fd])
        \* lines 908-926: a ninth distinct block cannot occur, so the
        \* FileTooBig of line 918 is never returned
        blocks == distinct_blocks(fs.file_content_buffer,
                                  file.inode_num * num_inode_bytes)
        block_full_flag == ~Contains(blocks, 0)
        w == write_loop(fs, fs.disk[1], file, buffer, 1, block_full_flag, blocks)
    IN  IF w.panic THEN Panic(w.fs)
        ELSE IF w.err THEN Done(w.fs, Err("FileTooBig"))
        ELSE IF ~ValidBlock(w.file.current_block) THEN Panic(w.fs)
        ELSE Done([disk_write(w.fs, w.file.current_block, w.file.block_buffer)
                      EXCEPT !.open[fd] = w.file],
                  Ok(Unit))

\* `for _ in 0..n { sys.write(fd, buffer).unwrap(); }` (test_file_too_big):
\* n writes of the same buffer, ended by the first that does not return Ok
RECURSIVE write_each(_, _, _, _)
write_each(fs, fd, buffer, n) ==
    IF n = 0 THEN Done(fs, Ok(Unit))
    ELSE CHOOSE done \in
             {IF r.panic \/ ~r.ret.ok THEN r ELSE write_each(r.fs, fd, buffer, n - 1) :
                 r \in {write(fs, fd, buffer)}} : TRUE

---------------------------------------------------------------------------
(* close *)

\* lines 978-987: the inode's blocks without repeats, in an array that
\* starts as copies of the first
used_blocks_of(image, inode_start) ==
    distinct_into(image, inode_start + 2, inode_start + num_inode_bytes,
                  Fill(MAX_FILE_BLOCKS, image[inode_start + 2]), 1)

used_count(image, inode_start) ==
    Cardinality({image[i] : i \in (inode_start + 2)..(inode_start + num_inode_bytes - 1)})

\* lines 988-1001: the bytes before the first zero byte of each block
RECURSIVE total_bytes(_, _, _)
total_bytes(fs, used_blocks, count) ==
    IF count = 0 THEN 0
    ELSE total_bytes(fs, used_blocks, count - 1)
         + leading_nonzero(fs.disk[used_blocks[count - 1]], 0)

close_empty_not_open(fs) == Done(fs, Err("FileNotOpen"))

\* lines 972-974: close reports an empty slot as FileNotFound
close_empty(fs) == Done(fs, Err("FileNotFound"))

close(fs, fd) ==
    IF fd >= MAX_OPEN THEN Panic(fs)
    ELSE IF fs.open[fd].none THEN close_empty(fs)
    ELSE
    LET file == fs.open[fd]
        fs1 == get_inode_table(fs)
        image == fs1.file_content_buffer
        inode_start == file.inode_num * num_inode_bytes
        used_blocks == used_blocks_of(image, inode_start)
        count == used_count(image, inode_start)
        total == total_bytes(fs1, used_blocks, count)
        piece1 == (total \div 256) % 256
        piece2 == total % 256
        fs2 == [fs1 EXCEPT !.file_content_buffer =
                   [image EXCEPT ![inode_start] = piece1, ![inode_start + 1] = piece2]]
        w == write_to_inode_table(fs2, 2 + (inode_start \div BLOCK_SIZE))
    IN  IF \E i \in 0..(count - 1) : ~ValidBlock(used_blocks[i]) THEN Panic(fs1)
        ELSE IF w.panic THEN w
        ELSE Done([w.fs EXCEPT !.open[fd] = None,
                               !.open_inodes[file.inode_num] = FALSE],
                  Ok(Unit))

---------------------------------------------------------------------------
(* list_directory *)

\* lines 1019-1030: a slot whose first byte is non-zero is the next file; the
\* first slot whose first byte is zero ends the loop
RECURSIVE listed_count(_, _)
listed_count(dirb, slot) ==
    IF slot * MAX_FILENAME_BYTES >= MAX_FILE_BYTES THEN slot
    ELSE IF dirb[slot * MAX_FILENAME_BYTES] = 0 THEN slot
    ELSE listed_count(dirb, slot + 1)

list_directory(fs) ==
    LET d == get_directory(fs)
        dirb == d.fs.directory_buffer
        count == listed_count(dirb, 0)
        files == [k \in 0..(MAX_FILES_STORED - 1) |->
                     [c \in 0..(MAX_FILENAME_BYTES - 1) |->
                         IF k < count THEN dirb[k * MAX_FILENAME_BYTES + c] ELSE 0]]
    IN  IF d.panic THEN d
        ELSE IF count > MAX_FILES_STORED THEN Panic(d.fs)      \* files[count - 1]
        ELSE Done(d.fs, Ok([count |-> count, files |-> files]))

---------------------------------------------------------------------------
(* The state machine: one action per public method, called by a caller    *)
(* that keeps the descriptors it was given.                                *)

\* the FileSystem value held in the variables
Self ==
    [open |-> open, disk |-> disk, file_content_buffer |-> file_content_buffer,
     directory_buffer |-> directory_buffer, open_inodes |-> open_inodes]

\* FileSystem::new over RamDisk::new()
new ==
    [open |-> [i \in 0..(MAX_OPEN - 1) |-> None],
     disk |-> [b \in 0..(NUM_BLOCKS - 1) |-> Fill(BLOCK_SIZE, 0)],
     file_content_buffer |-> Fill(MAX_FILE_BYTES, 0),
     directory_buffer |-> Fill(MAX_FILE_BYTES, 0),
     open_inodes |-> [i \in 0..(MAX_FILES_STORED - 1) |-> FALSE]]

\* What the caller knows about a descriptor it holds: the name it opened,
\* how, what had been written to the file then, whether the name was held
\* under no other descriptor then (clean), what it has read since, whether a
\* read has come back short (eof) or failed, and whether the file was written
\* or re-created under another descriptor meanwhile (disturbed).
NoFd == [held |-> FALSE]

HeldFd(name, mode, expect, clean) ==
    [held |-> TRUE, name |-> name, mode |-> mode, expect |-> expect,
     clean |-> clean, readback |-> <<>>, eof |-> FALSE, readfail |-> FALSE,
     disturbed |-> FALSE, wrote |-> FALSE]

\* the bits of the data bitmap a call has set: clear in before, set in after
\* (return_open_data counts bits in a u8, so bits up to U8_MAX)
MarkedBy(before, after) ==
    {b \in 0..U8_MAX : BitSet(after[b \div 8], b % 8) /\ ~BitSet(before[b \div 8], b % 8)}

\* the blocks a call has taken for a file: the bits it set in the data
\* bitmap, but for the reserved region and the first block of the directory,
\* which the first open_create marks on a blank disk (lines 250-281)
TakenBy(r) ==
    UNION {MarkedBy(disk[DATA_FULL_BLOCK], datatable) \ (0..first_data_block) :
              datatable \in {r.fs.disk[DATA_FULL_BLOCK]}}

\* Besides the descriptors of the open table the caller may be given MAX_OPEN
\* itself; hist.over is the mode of the last open that returned it, or "none".
Over(h, mode, r) == IF r.ret.val = MAX_OPEN THEN mode ELSE h.over

\* What the caller knows about a name it has created: the bytes written to
\* it since the last open_create of it, and how they got there: under the
\* descriptor of that open_create (written), under one of open_append
\* (appended), while a descriptor of another created file was held
\* (interleaved); whether that open_create found the name created already
\* (recreated), whether a write or close of the file has failed, and the
\* number of write calls that gave the content.
NewFile ==
    [content |-> <<>>, written |-> FALSE, append_opened |-> FALSE,
     appended |-> FALSE, recreated |-> FALSE, interleaved |-> FALSE,
     failed |-> FALSE, writes |-> 0, blocks |-> {},
     inode |-> MAX_FILES_STORED]

HistInit ==
    [created |-> {}, files |-> << >>, fds |-> [i \in 0..(MAX_OPEN - 1) |-> NoFd],
     allok |-> TRUE, over |-> "none", booted |-> FALSE]

Descriptors == 0..(MAX_OPEN - 1)

HeldIn(h) == {i \in Descriptors : h.fds[i].held}

HeldNames(h) == {h.fds[i].name : i \in HeldIn(h)}

Disturb(fds, name) ==
    [i \in Descriptors |->
        IF fds[i].held /\ fds[i].name = name /\ fds[i].mode = "read"
        THEN [fds[i] EXCEPT !.disturbed = TRUE] ELSE fds[i]]

Hold(fds, fd, info) ==
    IF fd \in Descriptors THEN [fds EXCEPT ![fd] = info] ELSE fds

Failed(r) == r.panic \/ ~r.ret.ok

HistOpenCreate(h, name, r) ==
    IF Failed(r) THEN [h EXCEPT !.allok = FALSE]
    ELSE [h EXCEPT
            !.created = @ \cup {name},
            !.files = [n \in h.created \cup {name} |->
                          IF n = name
                          THEN [NewFile EXCEPT
                                   !.recreated = name \in h.created,
                                   !.blocks = TakenBy(r) \cup
                                       (IF name \in h.created
                                        THEN h.files[name].blocks ELSE {}),
                                   !.inode =
                                       IF name \in h.created
                                       THEN h.files[name].inode
                                       ELSE IF r.ret.val \in Descriptors
                                       THEN r.fs.open[r.ret.val].inode_num
                                       ELSE MAX_FILES_STORED]
                          ELSE h.files[n]],
            !.fds = Hold(Disturb(h.fds, name), r.ret.val,
                         HeldFd(name, "create", <<>>, name \notin HeldNames(h))),
            !.over = Over(h, "create", r),
            !.booted = @ \/ (h.created = {} /\ disk = new.disk)]

HistOpen(h, name, mode, r) ==
    IF Failed(r) THEN [h EXCEPT !.allok = FALSE]
    ELSE [h EXCEPT
            !.files = [n \in h.created |->
                          IF n = name /\ mode = "append"
                          THEN [h.files[n] EXCEPT !.append_opened = TRUE]
                          ELSE h.files[n]],
            !.fds = Hold(h.fds, r.ret.val,
                         HeldFd(name, mode,
                                IF name \in h.created THEN h.files[name].content
                                ELSE <<>>,
                                name \notin HeldNames(h))),
            !.over = Over(h, mode, r)]

\* another descriptor from open_create, of another name, is held besides fd
OtherCreateHeld(h, fd) ==
    \E j \in HeldIn(h) :
        j # fd /\ h.fds[j].mode = "create" /\ h.fds[j].name # h.fds[fd].name

\* the created name a held descriptor stands for, if any
Known(h, fd) ==
    fd \in Descriptors /\ h.fds[fd].held /\ h.fds[fd].name \in h.created

MarkFailed(h, fd) ==
    IF Known(h, fd)
    THEN [h EXCEPT !.allok = FALSE, !.files[h.fds[fd].name].failed = TRUE]
    ELSE [h EXCEPT !.allok = FALSE]

HistWrite(h, fd, buffer, r) ==
    IF Failed(r) THEN MarkFailed(h, fd)
    ELSE IF ~Known(h, fd) THEN h
    ELSE LET name == h.fds[fd].name
             inter == h.fds[fd].mode = "create" /\ OtherCreateHeld(h, fd)
         IN  [h EXCEPT
                !.files[name] = [@ EXCEPT !.content = @ \o buffer,
                                          !.written = @ \/ h.fds[fd].mode = "create",
                                          !.appended = @ \/ h.fds[fd].mode = "append",
                                          !.interleaved = @ \/ inter,
                                          !.writes = @ + 1,
                                          !.blocks = @ \cup TakenBy(r)],
                !.fds = [Disturb(h.fds, name) EXCEPT ![fd].wrote = TRUE]]

\* n writes of the same buffer, all Ok or the loop counted as failed
HistWriteEach(h, fd, buffer, n, r) ==
    IF Failed(r) THEN MarkFailed(h, fd)
    ELSE IF ~Known(h, fd) THEN h
    ELSE LET name == h.fds[fd].name
             bytes == [i \in 1..(n * Len(buffer)) |-> buffer[((i - 1) % Len(buffer)) + 1]]
         IN  [h EXCEPT
                !.files[name] = [@ EXCEPT !.content = @ \o bytes,
                                          !.written = @ \/ h.fds[fd].mode = "create",
                                          !.appended = @ \/ h.fds[fd].mode = "append",
                                          !.writes = @ + n,
                                          !.blocks = @ \cup TakenBy(r)],
                !.fds = [Disturb(h.fds, name) EXCEPT ![fd].wrote = TRUE]]

HistRead(h, fd, len, r) ==
    IF Failed(r)
    THEN IF fd \in Descriptors /\ h.fds[fd].held
         THEN [h EXCEPT !.allok = FALSE, !.fds[fd].readfail = TRUE]
         ELSE [h EXCEPT !.allok = FALSE]
    ELSE IF ~(fd \in Descriptors /\ h.fds[fd].held) THEN h
    ELSE LET f == h.fds[fd]
         IN  [h EXCEPT !.fds[fd] =
                [f EXCEPT !.readback = IF f.eof THEN @ ELSE @ \o r.ret.val.bytes,
                          !.eof = @ \/ r.ret.val.bytes_read < len]]

HistClose(h, fd, r) ==
    IF Failed(r) THEN MarkFailed(h, fd)
    ELSE IF fd \in Descriptors THEN [h EXCEPT !.fds[fd] = NoFd]
    ELSE h

HistList(h, r) ==
    IF Failed(r) THEN [h EXCEPT !.allok = FALSE] ELSE h

\* the step every action takes: the call's result r becomes the state
Call(r, l, h) ==
    /\ ~panicked
    /\ calls_left > 0
    /\ open' = r.fs.open
    /\ disk' = r.fs.disk
    /\ file_content_buffer' = r.fs.file_content_buffer
    /\ directory_buffer' = r.fs.directory_buffer
    /\ open_inodes' = r.fs.open_inodes
    /\ panicked' = r.panic
    /\ last' = [l EXCEPT !.ret = r.ret,
                         !.open_kept = r.fs.open = open,
                         !.flags_kept = r.fs.open_inodes = open_inodes,
                         !.disk_kept = r.fs.disk = disk,
                         !.bitmaps_kept =
                             /\ r.fs.disk[INODE_FULL_BLOCK] = disk[INODE_FULL_BLOCK]
                             /\ r.fs.disk[DATA_FULL_BLOCK] = disk[DATA_FULL_BLOCK],
                         !.took = MarkedBy(disk[DATA_FULL_BLOCK],
                                           disk'[DATA_FULL_BLOCK]),
                         !.changed = {b \in 0..(NUM_BLOCKS - 1) : disk'[b] # disk[b]},
                         !.prev = last.op,
                         !.image_kept =
                             \A k \in 0..(inode_table_total - 1) :
                                 file_content_buffer'[k] = file_content_buffer[k]]
    /\ hist' = h
    /\ calls_left' = calls_left - 1

NoName == << >>
NoDescriptor == MAX_OPEN

\* every block of the data region is marked used in the data bitmap
DataRegionFull(datatable) ==
    \A b \in first_data_block..(NUM_BLOCKS - 1) : BitSet(datatable[b \div 8], b % 8)

\* a call's record before its result is known
NoCall ==
    [op |-> "new", name |-> NoName, fd |-> NoDescriptor, ret |-> Unit,
     was_created |-> FALSE, was_held |-> FALSE, prior_ok |-> TRUE,
     open_kept |-> TRUE, flags_kept |-> TRUE, disk_kept |-> TRUE,
     bitmaps_kept |-> TRUE, len |-> 0, was_empty |-> FALSE, was_full |-> FALSE,
     was_blank |-> FALSE, was_data_full |-> FALSE, took |-> {},
     changed |-> {}, file |-> NoName, prev |-> "none", image_kept |-> FALSE]

Calling(op, name, fd) ==
    [NoCall EXCEPT !.op = op, !.name = name, !.fd = fd,
                   !.was_created = name \in hist.created,
                   !.was_held = name \in HeldNames(hist),
                   !.prior_ok = hist.allok,
                   !.was_empty = fd \in Descriptors /\ open[fd].none,
                   !.was_full = FreeSlots(Self) = {},
                   !.was_blank = disk = new.disk,
                   !.was_data_full = DataRegionFull(disk[DATA_FULL_BLOCK]),
                   !.file = IF fd \in Descriptors /\ hist.fds[fd].held
                            THEN hist.fds[fd].name ELSE name]

\* the state after FileSystem::new, with a caller about to make n calls
Start(n) ==
    /\ open = new.open
    /\ disk = new.disk
    /\ file_content_buffer = new.file_content_buffer
    /\ directory_buffer = new.directory_buffer
    /\ open_inodes = new.open_inodes
    /\ panicked = FALSE
    /\ last = NoCall
    /\ hist = HistInit
    /\ calls_left = n

OpenCreate(filename) ==
    LET r == open_create(Self, filename)
    IN  Call(r, Calling("open_create", filename, NoDescriptor),
             HistOpenCreate(hist, filename, r))

OpenRead(filename) ==
    LET r == open_read(Self, filename)
    IN  Call(r, Calling("open_read", filename, NoDescriptor),
             HistOpen(hist, filename, "read", r))

OpenAppend(filename) ==
    LET r == open_append(Self, filename)
    IN  Call(r, Calling("open_append", filename, NoDescriptor),
             HistOpen(hist, filename, "append", r))

Read(fd, len) ==
    LET r == read(Self, fd, len)
    IN  Call(r, [Calling("read", NoName, fd) EXCEPT !.len = len],
             HistRead(hist, fd, len, r))

Write(fd, buffer) ==
    LET r == write(Self, fd, buffer)
    IN  Call(r, [Calling("write", NoName, fd) EXCEPT !.len = Len(buffer)],
             HistWrite(hist, fd, buffer, r))

WriteEach(fd, buffer, n) ==
    LET r == write_each(Self, fd, buffer, n)
    IN  Call(r, [Calling("write_each", NoName, fd) EXCEPT !.len = n * Len(buffer)],
             HistWriteEach(hist, fd, buffer, n, r))

Close(fd) ==
    LET r == close(Self, fd)
    IN  Call(r, Calling("close", NoName, fd), HistClose(hist, fd, r))

ListDirectory ==
    LET r == list_directory(Self)
    IN  Call(r, Calling("list_directory", NoName, NoDescriptor), HistList(hist, r))

---------------------------------------------------------------------------
(* Callers.  A specification is a caller that draws its calls from small   *)
(* sets and makes a bounded number of calls.                               *)

Held == HeldIn(hist)

\* descriptors the caller got from open_create or open_append / open_read
Writable == {fd \in Held : hist.fds[fd].mode \in {"create", "append"}}
Readable == {fd \in Held : hist.fds[fd].mode = "read"}

\* names the caller has created and holds no descriptor of
Closed == hist.created \ HeldNames(hist)

\* what the caller knows about the file under a descriptor it holds
FileOf(fd) == hist.files[hist.fds[fd].name]

\* ASCII
Chr(c) == CASE c = "a" -> 97 [] c = "b" -> 98 [] c = "A" -> 65 [] c = "B" -> 66
            [] c = "f" -> 102 [] c = "n" -> 110 [] c = "0" -> 48

Bytes(n, c) == [i \in 1..n |-> Chr(c)]

\* any call at any time
AnyCall(names, buffers, len, fds) ==
    \/ \E n \in names : OpenCreate(n)
    \/ \E n \in names : OpenRead(n)
    \/ \E n \in names : OpenAppend(n)
    \/ \E fd \in fds : Read(fd, len)
    \/ \E fd \in fds, b \in buffers : Write(fd, b)
    \/ \E fd \in fds : Close(fd)
    \/ ListDirectory

\* a caller that holds one descriptor at a time and uses it for what it was
\* opened for
Sequential(names, buffers, len) ==
    \/ \E n \in names : Held = {} /\ OpenCreate(n)
    \/ \E n \in names \cap Closed : Held = {} /\ OpenRead(n)
    \/ \E n \in names \cap Closed : Held = {} /\ OpenAppend(n)
    \/ \E fd \in Readable : Read(fd, len)
    \/ \E fd \in Writable, b \in buffers : Write(fd, b)
    \/ \E fd \in Held : Close(fd)

\* Spec: any call at any time, two names, the first two descriptors.
MaxOps == 4
Names == {<<Chr("a")>>, <<Chr("b")>>}
Buffers == {Bytes(BLOCK_SIZE, "A"), Bytes(1, "B")}
ReadLen == 4
Fds == {0, 1}

Init == Start(MaxOps)

Next == AnyCall(Names, Buffers, ReadLen, Fds)

Spec == Init /\ [][Next]_vars

\* SpecNames: any call at any time, with the empty name and two names of
\* MAX_FILENAME_BYTES bytes that differ in the last byte.
MaxOpsNames == 3
Stem == Bytes(MAX_FILENAME_BYTES - 1, "f")
NearNames == {<< >>, Stem \o <<Chr("a")>>, Stem \o <<Chr("b")>>}

NextNames == AnyCall(NearNames, {Bytes(1, "B")}, ReadLen, {0})

SpecNames == Start(MaxOpsNames) /\ [][NextNames]_vars

\* SpecLong: one file of up to two long writes, appended to and read back.
MaxOpsLong == 8
LongName == <<Chr("a")>>
LongLen == 224
LongBuffers == {Bytes(LongLen, "A"), Bytes(LongLen, "B")}
LongReadLen == 256

NextLong == Sequential({LongName}, LongBuffers, LongReadLen)

SpecLong == Start(MaxOpsLong) /\ [][NextLong]_vars

\* SpecShort: one file of short writes, created again and read back.
MaxOpsShort == 8
ShortBuffers == {Bytes(2, "A"), Bytes(1, "B")}

NextShort == Sequential({LongName}, ShortBuffers, ReadLen)

SpecShort == Start(MaxOpsShort) /\ [][NextShort]_vars

\* SpecTwo: two files created once each, written while both are open, closed
\* and read back.
MaxOpsTwo == 8
TwoLen == 448
TwoReadLen == 512

NextTwo ==
    \/ \E n \in Names \ hist.created : OpenCreate(n)
    \/ \E n \in Closed : OpenRead(n)
    \/ \E fd \in Readable : Read(fd, TwoReadLen)
    \/ \E fd \in Writable : Write(fd, Bytes(TwoLen, "A"))
    \/ \E fd \in Held : Close(fd)

SpecTwo == Start(MaxOpsTwo) /\ [][NextTwo]_vars

\* SpecMany: files n1, n2, ... created one after another, each left open or
\* closed, and the directory listed.
MaxOpsMany == 10
MaxFiles == 9
NameOf(k) == <<Chr("n"), Chr("0") + k>>

\* the last call was the open_create that returned fd
JustCreated(fd) ==
    last.op = "open_create" /\ ~panicked /\ last.ret.ok /\ last.ret.val = fd

NextMany ==
    \/ /\ Cardinality(hist.created) < MaxFiles
       /\ OpenCreate(NameOf(Cardinality(hist.created) + 1))
    \/ \E fd \in Held : JustCreated(fd) /\ Close(fd)
    \/ ListDirectory

SpecMany == Start(MaxOpsMany) /\ [][NextMany]_vars

\* SpecFull: files created and closed one after another until the inode
\* table is full and beyond; the first name is n1 or the empty name.
MaxOpsFull == 66
EmptyName == << >>

NextFull ==
    \/ Held = {} /\ OpenCreate(NameOf(Cardinality(hist.created) + 1))
    \/ Held = {} /\ hist.created = {} /\ OpenCreate(EmptyName)
    \/ \E fd \in Held : Close(fd)

SpecFull == Start(MaxOpsFull) /\ [][NextFull]_vars

\* SpecBig: one file written up to max_file_size and beyond, either by
\* one-byte writes, the first of them in loops of LoopLen writes, or by a
\* first write of max_file_size bytes and one-byte writes after it.
MaxOpsBig == 80
LoopLen == 50

NextBig ==
    \/ hist.created = {} /\ OpenCreate(LongName)
    \/ \E fd \in Writable : Write(fd, Bytes(1, "A"))
    \/ \E fd \in Writable :
           /\ Len(hist.files[hist.fds[fd].name].content) % LoopLen = 0
           /\ Len(hist.files[hist.fds[fd].name].content) + LoopLen < max_file_size
           /\ WriteEach(fd, Bytes(1, "A"), LoopLen)
    \/ \E fd \in Writable :
           /\ hist.files[hist.fds[fd].name].content = << >>
           /\ Write(fd, Bytes(max_file_size, "A"))

SpecBig == Start(MaxOpsBig) /\ [][NextBig]_vars

\* SpecSlots: descriptors taken until the open table is full and beyond,
\* either by files n1, n2, ... created and left open, or by n1 created again
\* and again; n1 may be closed right after its first open_create and opened
\* for reading or appending then or when the table is full; the descriptor such an open gave,
\* and the descriptor MAX_OPEN, may be read and written right after the open,
\* and the descriptor MAX_OPEN closed.
MaxOpsSlots == 20

\* the last call was the open that returned fd
JustOpened(fd) ==
    last.op \in {"open_create", "open_read", "open_append"}
        /\ ~panicked /\ last.ret.ok /\ last.ret.val = fd

\* the descriptors the caller tries
Probed(fd) == JustOpened(fd) /\ (fd = MAX_OPEN \/ last.op # "open_create")

\* n1 has been created again
Recreated ==
    IF NameOf(1) \in hist.created THEN hist.files[NameOf(1)].recreated ELSE FALSE

\* n1 is opened again when it is the only file and closed, or when the
\* caller holds MAX_OPEN descriptors
Reopens ==
    \/ hist.created = {NameOf(1)} /\ Held = {}
    \/ Cardinality(Held) = MAX_OPEN

\* the last call was the open_create that made n1
FirstCreate ==
    last.op = "open_create" /\ ~last.was_created /\ last.name = NameOf(1)

NextSlots ==
    \/ /\ Cardinality(hist.created) <= MAX_OPEN
       /\ ~Recreated
       /\ OpenCreate(NameOf(Cardinality(hist.created) + 1))
    \/ hist.created = {NameOf(1)} /\ OpenCreate(NameOf(1))
    \/ Reopens /\ OpenRead(NameOf(1))
    \/ Reopens /\ OpenAppend(NameOf(1))
    \/ \E fd \in 0..MAX_OPEN : Probed(fd) /\ Write(fd, Bytes(1, "A"))
    \/ \E fd \in 0..MAX_OPEN : Probed(fd) /\ Read(fd, ReadLen)
    \/ \E fd \in 0..MAX_OPEN :
           /\ JustOpened(fd)
           /\ IF fd = MAX_OPEN THEN TRUE ELSE FirstCreate
           /\ Close(fd)

SpecSlots == Start(MaxOpsSlots) /\ [][NextSlots]_vars

\* SpecTooLong: any call at any time, with a name of one byte and a name of
\* MAX_FILENAME_BYTES + 1 bytes.
MaxOpsTooLong == 4
TooLongName == Bytes(MAX_FILENAME_BYTES + 1, "f")

NextTooLong == AnyCall({LongName, TooLongName}, {Bytes(1, "B")}, ReadLen, {0})

SpecTooLong == Start(MaxOpsTooLong) /\ [][NextTooLong]_vars

\* SpecDisk: files of equal size created, written and closed one after
\* another, each by one write of MAX_FILE_BLOCKS - 1 blocks or of
\* max_file_size bytes, until the inode table or the data region is full;
\* the last file that fits is written a block at a time, and closed at any
\* time.
MaxOpsDisk == 88
FillSizes == {BLOCK_SIZE * (MAX_FILE_BLOCKS - 1), max_file_size}

\* the size of the first file, once it is written
SizeChosen ==
    IF NameOf(1) \in hist.created /\ hist.files[NameOf(1)].content # << >>
    THEN {Len(hist.files[NameOf(1)].content)}
    ELSE FillSizes

\* the files of the chosen size that fit into the data region beside the
\* directory and one more file
FilesThatFit ==
    IF SizeChosen = {max_file_size}
    THEN (num_data_blocks - 2) \div (MAX_FILE_BLOCKS + 1)
    ELSE (num_data_blocks - 2) \div MAX_FILE_BLOCKS

LastFile(fd) == Cardinality(hist.created) > FilesThatFit

NextDisk ==
    \/ Held = {} /\ OpenCreate(NameOf(Cardinality(hist.created) + 1))
    \/ \E fd \in Writable, n \in SizeChosen :
           /\ ~LastFile(fd)
           /\ FileOf(fd).content = << >>
           /\ Write(fd, Bytes(n, "A"))
    \/ \E fd \in Writable : LastFile(fd) /\ Write(fd, Bytes(BLOCK_SIZE, "B"))
    \/ \E fd \in Held : FileOf(fd).content # << >> /\ Close(fd)

SpecDisk == Start(MaxOpsDisk) /\ [][NextDisk]_vars

---------------------------------------------------------------------------
(* Reading back. *)

\* descriptor fd reads a created file back from its start: it was opened by
\* open_read when no descriptor held the name, the file has not been written
\* or created again since, and no write or close of the file has failed
ReadsBack(fd) ==
    /\ fd \in Readable
    /\ hist.fds[fd].name \in hist.created
    /\ hist.fds[fd].clean
    /\ ~hist.fds[fd].disturbed
    /\ ~FileOf(fd).failed

\* no read on fd has failed or panicked, and once a read has come back short
\* the bytes read are the bytes written
ReadBackRight(fd) ==
    /\ ~hist.fds[fd].readfail
    /\ hist.fds[fd].eof => hist.fds[fd].readback = hist.fds[fd].expect

\* C1: a file created, written in one or several calls and closed reads back
\* as the bytes written, and no read panics.
RoundTrip ==
    \A fd \in Descriptors :
        (/\ ReadsBack(fd)
         /\ FileOf(fd).written
         /\ ~FileOf(fd).append_opened
         /\ ~FileOf(fd).recreated)
            => ReadBackRight(fd)

\* C2: a file created, written (A), closed, opened by open_append, written
\* (B) and closed reads back as A followed by B.
AppendUnderSplit ==
    \A fd \in Descriptors :
        (/\ ReadsBack(fd)
         /\ FileOf(fd).written
         /\ FileOf(fd).appended
         /\ ~FileOf(fd).recreated)
            => ReadBackRight(fd)

\* C3: a file created, written (A), closed, created again, written (B) and
\* closed reads back as B.
ReCreate ==
    \A fd \in Descriptors :
        (/\ ReadsBack(fd)
         /\ FileOf(fd).recreated
         /\ FileOf(fd).written
         /\ ~FileOf(fd).append_opened)
            => ReadBackRight(fd)

\* C4: two files created, each written while the other's descriptor was
\* held, and both closed: each reads back as the bytes written to it.
BothInterleaved ==
    /\ Writable = {}
    /\ \E n, m \in hist.created :
           n # m /\ hist.files[n].interleaved /\ hist.files[m].interleaved

TwoInterleavedFiles ==
    \A fd \in Descriptors :
        (/\ ReadsBack(fd)
         /\ BothInterleaved
         /\ FileOf(fd).interleaved
         /\ ~FileOf(fd).append_opened
         /\ ~FileOf(fd).recreated)
            => ReadBackRight(fd)

---------------------------------------------------------------------------
(* The directory and the bitmaps. *)

\* every call so far has returned Ok
AllSucceeded == hist.allok /\ ~panicked

\* the names of a list_directory result, as a set
ListedNames(val) == {val.files[k] : k \in 0..(val.count - 1)}

\* C5: list_directory returns exactly the names passed to a successful
\* open_create, each once, for up to MAX_FILES_STORED - 1 files.
ListIsCreated ==
    (/\ last.op = "list_directory"
     /\ last.prior_ok
     /\ Cardinality(hist.created) <= MAX_FILES_STORED - 1)
        => /\ ~panicked
           /\ last.ret.ok
           /\ last.ret.val.count = Cardinality(hist.created)
           /\ ListedNames(last.ret.val) = {namebuffer(n) : n \in hist.created}

\* what list_directory would return now
Listing == list_directory(Self)

\* C6: after the first create and successful calls only, the inode bitmap
\* has one 1-bit more than list_directory returns distinct names.
InodeBitsAreListed ==
    (AllSucceeded /\ hist.created # {})
        => /\ ~Listing.panic
           /\ Listing.ret.ok
           /\ BlockOnes(disk[INODE_FULL_BLOCK])
                  = Cardinality(ListedNames(Listing.ret.val)) + 1

\* the inode table as stored on disk, and the inodes the bitmap has allocated
Stored == get_inode_table(Self).file_content_buffer

Allocated ==
    {i \in 0..(MAX_FILES_STORED - 1) : BitSet(disk[INODE_FULL_BLOCK][i \div 8], i % 8)}

StoredBlocks(i) ==
    [k \in 0..(MAX_FILE_BLOCKS - 1) |-> Stored[i * num_inode_bytes + 2 + k]]

DistinctBlocks(i) == {StoredBlocks(i)[k] : k \in 0..(MAX_FILE_BLOCKS - 1)}

RECURSIVE BlocksInUse(_)
BlocksInUse(i) ==
    IF i >= MAX_FILES_STORED THEN 0
    ELSE (IF i \in Allocated THEN Cardinality(DistinctBlocks(i)) ELSE 0)
         + BlocksInUse(i + 1)

\* C7: after successful calls only, the data bitmap has as many 1-bits as
\* the reserved region has blocks plus the distinct blocks of the allocated
\* inodes (inode 0 and the files).
DataBitsAreBlocks ==
    (AllSucceeded /\ hist.created # {})
        => BlockOnes(disk[DATA_FULL_BLOCK]) = first_data_block + BlocksInUse(0)

\* the length of the prefix of an inode's blocks before the first repeat
RepeatsAt(blocks, k) == \E j \in 0..(k - 1) : blocks[j] = blocks[k]

PrefixLen(blocks) ==
    IF \E k \in DOMAIN blocks : RepeatsAt(blocks, k)
    THEN Least({k \in DOMAIN blocks : RepeatsAt(blocks, k)})
    ELSE MAX_FILE_BLOCKS

\* C8: every allocated inode, as stored on disk, lists before its first
\* repeated value only blocks of the data region.
StoredBlocksInDataRegion ==
    \A i \in Allocated :
        \A k \in 0..(PrefixLen(StoredBlocks(i)) - 1) :
            StoredBlocks(i)[k] \in first_data_block..(NUM_BLOCKS - 1)

---------------------------------------------------------------------------
(* Errors of the open calls. *)

Opens == {"open_create", "open_read", "open_append"}

\* C9: an open call on a name held under a descriptor returns AlreadyOpen and
\* adds no open-table entry.
HeldIsAlreadyOpen ==
    (last.op \in Opens /\ last.was_held)
        => /\ ~panicked
           /\ last.ret = Err("AlreadyOpen")
           /\ last.open_kept

\* C10: open_read and open_append of a name of at most MAX_FILENAME_BYTES
\* bytes never passed to a successful open_create return FileNotFound and
\* leave the open table and the open flags as they were.
NeverCreatedIsNotFound ==
    (/\ last.op \in {"open_read", "open_append"}
     /\ ~last.was_created
     /\ Len(last.name) <= MAX_FILENAME_BYTES)
        => /\ ~panicked
           /\ last.ret = Err("FileNotFound")
           /\ last.open_kept
           /\ last.flags_kept

---------------------------------------------------------------------------
(* Limits. *)

\* the names created before the last call, when that call was an open_create
\* of a new name
CreatedBefore == Cardinality(hist.created \ {last.name})

\* C11: on a disk that was blank, with every call so far Ok, open_create of a
\* new name returns Ok while fewer than MAX_FILES_STORED - 1 names have been
\* created, and TooManyFiles with both bitmaps unchanged after that.
CreatesUntilTooManyFiles ==
    (/\ last.op = "open_create"
     /\ ~last.was_created
     /\ last.prior_ok
     /\ Len(last.name) <= MAX_FILENAME_BYTES)
        => /\ ~panicked
           /\ IF CreatedBefore < MAX_FILES_STORED - 1
              THEN last.ret.ok
              ELSE last.ret = Err("TooManyFiles") /\ last.bitmaps_kept

\* the file the last call wrote to, and the bytes it held before that call
WrittenFile == hist.files[hist.fds[last.fd].name]

BytesBefore ==
    IF ~panicked /\ last.ret.ok
    THEN Len(WrittenFile.content) - last.len
    ELSE Len(WrittenFile.content)

\* the last call was a write under the descriptor of the open_create that
\* made the file, and every call before it returned Ok
WriteOnNew ==
    /\ last.op = "write"
    /\ last.prior_ok
    /\ last.fd \in Held
    /\ hist.fds[last.fd].mode = "create"
    /\ hist.fds[last.fd].name \in hist.created
    /\ ~WrittenFile.recreated

\* C12: a write that brings a new file to at most max_file_size bytes returns
\* Ok, and a write to a file of max_file_size bytes returns FileTooBig.
AcceptsMaxFileSize ==
    WriteOnNew
        => /\ ~panicked
           /\ BytesBefore + last.len <= max_file_size => last.ret.ok
           /\ BytesBefore = max_file_size => last.ret = Err("FileTooBig")

\* C13: after max_file_size - 1 one-byte writes that returned Ok, the next
\* one-byte write returns FileTooBig.
OneByteWritesUntilTooBig ==
    (/\ WriteOnNew
     /\ last.len = 1
     /\ WrittenFile.writes = Len(WrittenFile.content)
     /\ BytesBefore = max_file_size - 1)
        => /\ ~panicked
           /\ last.ret = Err("FileTooBig")

RefusedLastByte ==
    /\ WriteOnNew
    /\ last.len = 1
    /\ WrittenFile.writes = max_file_size - 1
    /\ Len(WrittenFile.content) = max_file_size - 1
    /\ last.ret = Err("FileTooBig")

---------------------------------------------------------------------------
(* Descriptors and modes. *)

\* the mode of the open that gave descriptor fd to the caller, "none" if the
\* caller holds no such descriptor
ModeOf(fd) ==
    IF fd = MAX_OPEN THEN hist.over
    ELSE IF fd \in Held THEN hist.fds[fd].mode
    ELSE "none"

\* C14: write under a descriptor returned by open_read returns
\* NotOpenForWrite and leaves the disk and the open table unchanged.
WriteOnReadIsRefused ==
    (last.op = "write" /\ ModeOf(last.fd) = "read")
        => /\ ~panicked
           /\ last.ret = Err("NotOpenForWrite")
           /\ last.disk_kept
           /\ last.open_kept

\* C15: read under a descriptor returned by open_create or open_append
\* returns NotOpenForRead, whether or not the descriptor has been written.
ReadOnWriteIsRefused ==
    (last.op = "read" /\ ModeOf(last.fd) \in {"create", "append"})
        => /\ ~panicked
           /\ last.ret = Err("NotOpenForRead")

\* C16: on a descriptor below MAX_OPEN whose slot is empty, read and write
\* return FileNotOpen and close returns FileNotFound, and the disk, the open
\* table and the open flags are unchanged.
EmptySlotIsRefused ==
    (last.op \in {"read", "write", "close"} /\ last.was_empty)
        => /\ ~panicked
           /\ last.ret = IF last.op = "close" THEN Err("FileNotFound")
                         ELSE Err("FileNotOpen")
           /\ last.disk_kept
           /\ last.open_kept
           /\ last.flags_kept

\* a close of an empty slot while another descriptor is held
ClosedEmptySlot ==
    /\ last.op = "close"
    /\ last.was_empty
    /\ last.ret = Err("FileNotFound")
    /\ Held # {}
    /\ last.disk_kept /\ last.open_kept /\ last.flags_kept

\* C17: with every slot of the open table occupied, an open of a name the
\* caller does not hold returns TooManyOpen, stores no entry and sets no open
\* flag.
FullTableIsTooManyOpen ==
    (last.op \in Opens /\ last.was_full /\ ~last.was_held)
        => /\ ~panicked
           /\ last.ret = Err("TooManyOpen")
           /\ last.open_kept
           /\ last.flags_kept

\* C19: open_create of a name longer than MAX_FILENAME_BYTES returns
\* FilenameTooLong and leaves the disk, the open table and the open flags as
\* they were; on a blank disk nothing is written.
TooLongIsRefused ==
    (last.op = "open_create" /\ Len(last.name) > MAX_FILENAME_BYTES)
        => /\ ~panicked
           /\ last.ret = Err("FilenameTooLong")
           /\ last.disk_kept
           /\ last.open_kept
           /\ last.flags_kept

\* the too-long name was refused on a blank disk, which is blank still
RefusedOnBlankDisk ==
    /\ last.op = "open_create"
    /\ Len(last.name) > MAX_FILENAME_BYTES
    /\ last.was_blank
    /\ last.ret = Err("FilenameTooLong")
    /\ disk = new.disk

---------------------------------------------------------------------------
(* Allocation. *)

\* the last call needed a new data block: a write under the descriptor of a
\* new file that brings the current block to BLOCK_SIZE bytes, or an
\* open_create of a new name while an inode is free
NeedsBlock ==
    \/ WriteOnNew /\ (BytesBefore % BLOCK_SIZE) + last.len >= BLOCK_SIZE
    \/ /\ last.op = "open_create"
       /\ ~last.was_created
       /\ Len(last.name) <= MAX_FILENAME_BYTES
       /\ CreatedBefore < MAX_FILES_STORED - 1

\* C18: when every block of the data region is marked used, a call that
\* needs a new data block returns DiskFull and allocates nothing.
FullDiskIsDiskFull ==
    (last.was_data_full /\ NeedsBlock)
        => /\ ~panicked
           /\ last.ret = Err("DiskFull")
           /\ last.bitmaps_kept

\* the blocks the allocator handed out in the last call: the bits the call
\* set in the data bitmap, but for those of the reserved region that the
\* first open_create sets on a blank disk
HandedOut ==
    IF last.op = "open_create" /\ last.was_blank
    THEN last.took \ (0..(first_data_block - 1))
    ELSE last.took

DataRegion == first_data_block..(NUM_BLOCKS - 1)

\* C20: every block handed out by the data allocator is in the data region
\* (its bit was clear before the call); no data block is in the stored block
\* lists of two allocated inodes, inode 0 included; no open file's
\* current_block is a bitmap or inode-table block.
AllocationIsSafe ==
    /\ HandedOut \subseteq DataRegion
    /\ \A i, j \in Allocated :
           i # j => DistinctBlocks(i) \cap DistinctBlocks(j) \cap DataRegion = {}
    /\ \A fd \in Descriptors :
           ~open[fd].none => open[fd].current_block >= first_data_block

---------------------------------------------------------------------------
(* Frames and round trips. *)

\* the blocks the allocator has given to the created files other than the
\* one the last call was about
BlocksOfOthers ==
    UNION {hist.files[n].blocks : n \in hist.created \ {last.file}}

BlocksOfFile ==
    IF last.file \in hist.created THEN hist.files[last.file].blocks ELSE {}

\* C21: the blocks whose contents an open_create, write or close changes are
\* bitmap blocks, inode-table blocks, blocks of inode 0 or blocks of the
\* file the call is about; no block of another file is changed.
WritesStayInFrame ==
    (last.op \in {"open_create", "write", "close"} /\ last.prior_ok)
        => /\ last.changed \cap BlocksOfOthers = {}
           /\ last.changed \subseteq
                  (0..first_data_block) \cup DistinctBlocks(0) \cup BlocksOfFile

\* A caller that creates files and, as open_create and close do for the
\* inode they store, stores the inode table at the block of an allocated
\* inode and loads it again.
inode_block(inode_num) == 2 + ((inode_num * num_inode_bytes) \div BLOCK_SIZE)

WriteToInodeTable(inode_num) ==
    LET r == write_to_inode_table(Self, inode_block(inode_num))
    IN  Call(r, Calling("write_to_inode_table", NoName, NoDescriptor), hist)

GetInodeTable ==
    Call(Done(get_inode_table(Self), Unit),
         Calling("get_inode_table", NoName, NoDescriptor), hist)

MaxOpsTable == 9
MaxFilesTable == 6

NextTable ==
    \/ /\ Cardinality(hist.created) < MaxFilesTable
       /\ last.op \in {"new", "open_create"}
       /\ OpenCreate(NameOf(Cardinality(hist.created) + 1))
    \/ \E i \in Allocated : WriteToInodeTable(i)
    \/ GetInodeTable

SpecTable == Start(MaxOpsTable) /\ [][NextTable]_vars

\* C22: loading the inode table right after storing it gives back the image
\* that was stored, for all MAX_FILES_STORED inode records, whichever
\* allocated inode the store was made for.
TableLoadsBack ==
    (last.op = "get_inode_table" /\ last.prev = "write_to_inode_table")
        => last.image_kept

---------------------------------------------------------------------------
(* The directory. *)

\* C23: a descriptor of a created name is on the inode that was allocated
\* when the name was first created, and two different names are never on
\* the same inode.
NamesKeepTheirInodes ==
    (hist.allok /\ ~panicked)
        => /\ \A fd \in Held :
                  ~open[fd].none => open[fd].inode_num = FileOf(fd).inode
           /\ \A n, m \in hist.created :
                  n # m => hist.files[n].inode # hist.files[m].inode

\* the name is in some slot of block b on disk
NameInBlock(name, b) ==
    \E s \in 0..((BLOCK_SIZE \div MAX_FILENAME_BYTES) - 1) :
        \A j \in 0..(MAX_FILENAME_BYTES - 1) :
            disk[b][s * MAX_FILENAME_BYTES + j] = namebuffer(name)[j]

\* C24: after open_create of a new name returns Ok, a block of inode 0 on
\* disk holds the NUL-padded name in a slot.
NameIsOnDisk ==
    (/\ last.op = "open_create" /\ ~panicked /\ last.ret.ok
     /\ last.prior_ok /\ ~last.was_created)
        => \E b \in DistinctBlocks(0) \ {0} : NameInBlock(last.name, b)

---------------------------------------------------------------------------
(* Block lists. *)

\* a block list is r + 1 different blocks followed by copies of the last
\* of them
TailRepeatsLast(blocks) ==
    \E r \in 0..(MAX_FILE_BLOCKS - 1) :
        /\ \A k \in r..(MAX_FILE_BLOCKS - 1) : blocks[k] = blocks[r]
        /\ \A i, j \in 0..r : i # j => blocks[i] # blocks[j]

\* a block list is the r + 1 different blocks of `all`, the last of them
\* among `added`, followed by copies of the first of them
TailRepeatsFirst(blocks, all, added) ==
    \E r \in 0..(MAX_FILE_BLOCKS - 1) :
        /\ \A k \in (r + 1)..(MAX_FILE_BLOCKS - 1) : blocks[k] = blocks[0]
        /\ \A i, j \in 0..r : i # j => blocks[i] # blocks[j]
        /\ blocks[r] \in added
        /\ all = {blocks[i] : i \in 0..r}

\* a write that appended blocks to the inode of its file
Appended ==
    /\ last.op = "write" /\ ~panicked /\ last.ret.ok /\ last.prior_ok
    /\ last.took # {} /\ last.fd \in Descriptors /\ ~open[last.fd].none

StoredList(i) == distinct_blocks(Stored, i * num_inode_bytes)

\* C26: a write under a descriptor open for writing only appends to the
\* block list of its file: the list before the call is a prefix of the list
\* after it, and every block the file was given is still in the list.
WritesOnlyAppend ==
    [][(/\ last'.op = "write" /\ ~panicked' /\ hist.allok
        /\ last'.fd \in Writable /\ ~open[last'.fd].none)
           => \A n \in {open[last'.fd].inode_num} :
                  /\ \A k \in 0..(MAX_FILE_BLOCKS - 1) :
                         StoredList(n)[k] # 0 => StoredList(n)'[k] = StoredList(n)[k]
                  /\ hist'.files[last'.file].blocks \subseteq DistinctBlocks(n)']_vars

---------------------------------------------------------------------------
(* The open table. *)

Occupied == {fd \in Descriptors : ~open[fd].none}

\* C27: no two occupied slots of the open table are on the same inode, and
\* open_inodes[i] is set exactly when an occupied slot is on inode i.
OpenTableIsConsistent ==
    ~panicked
        => /\ \A fd, fe \in Occupied :
                  fd # fe => open[fd].inode_num # open[fe].inode_num
           /\ \A i \in DOMAIN open_inodes :
                  open_inodes[i] <=> \E fd \in Occupied : open[fd].inode_num = i

\* the flags of an entry are those of the call that made it
FlagsOf(fd) ==
    CASE ModeOf(fd) = "read" -> open[fd].reading /\ ~open[fd].writing
      [] ModeOf(fd) = "append" -> open[fd].writing /\ ~open[fd].reading
      [] ModeOf(fd) = "create" ->
            /\ ~open[fd].reading
            /\ hist.fds[fd].wrote => open[fd].writing
            /\ (~hist.fds[fd].wrote /\ ~FileOf(fd).failed) => ~open[fd].writing
      [] OTHER -> TRUE

\* C28: no open entry has both reading and writing set; an entry from
\* open_read has reading and not writing, an entry from open_append has
\* writing and not reading, and an entry from open_create has neither until
\* a write under it has returned Ok, and writing alone from then on.
FlagsFollowMode ==
    ~panicked
        => \A fd \in Occupied :
              /\ ~(open[fd].reading /\ open[fd].writing)
              /\ fd \in Held => FlagsOf(fd)

\* a descriptor from open_create has been written to and another has not
WrittenAndUnwritten ==
    /\ ~panicked
    /\ \E fd, fe \in Occupied \cap Held :
           /\ ModeOf(fd) = "create" /\ hist.fds[fd].wrote
           /\ open[fd].writing /\ ~open[fd].reading
           /\ ModeOf(fe) = "create" /\ ~hist.fds[fe].wrote
           /\ ~open[fe].writing /\ ~open[fe].reading

---------------------------------------------------------------------------
(* The bootstrap. *)

\* what the bootstrap of open_create writes: inode 0 allocated, the blocks
\* 0..first_data_block in use, inode 0 empty with first_data_block in
\* every entry of its block list
Bootstrapped ==
    /\ BitSet(disk[INODE_FULL_BLOCK][0], 0)
    /\ \A b \in 0..first_data_block : BitSet(disk[DATA_FULL_BLOCK][b \div 8], b % 8)
    /\ Stored[0] = 0 /\ Stored[1] = 0
    /\ \A k \in 0..(MAX_FILE_BLOCKS - 1) : StoredBlocks(0)[k] = first_data_block

\* C29: from the first open_create that returns Ok on a blank disk on, the
\* bit of inode 0 and the data-bitmap bits 0..first_data_block are set and
\* inode 0 on disk is empty with first_data_block in all its entries.
BootstrapStays == (hist.booted /\ ~panicked) => Bootstrapped

---------------------------------------------------------------------------
(* close *)

StoredBytes(i) ==
    Stored[i * num_inode_bytes] * 256 + Stored[i * num_inode_bytes + 1]

StoredRecord(i) ==
    [k \in 0..(num_inode_bytes - 1) |-> Stored[i * num_inode_bytes + k]]

\* C30: a close that returns Ok leaves in the stored record of its inode
\* the number of bytes written to the file, high byte first, and leaves the
\* stored records of the other allocated inodes as they were.
CloseStoresSize ==
    [][(/\ last'.op = "close" /\ ~panicked' /\ last'.ret.ok /\ hist'.allok
        /\ last'.fd \in Held /\ ~open[last'.fd].none)
           => \A n \in {open[last'.fd].inode_num} :
                 /\ StoredBytes(n)' = Len(FileOf(last'.fd).content)
                 /\ \A m \in Allocated \ {n} :
                        StoredRecord(m)' = StoredRecord(m)]_vars

---------------------------------------------------------------------------
(* Open entries. *)

\* C31: every occupied entry of the open table has offset < BLOCK_SIZE and a
\* current_block that is a block of the data region and one of the
\* different blocks of its inode; no read panics on an index.
EntriesAreInTheirFiles ==
    IF panicked THEN last.op # "read"
    ELSE \A fd \in Occupied :
              /\ open[fd].offset < BLOCK_SIZE
              /\ open[fd].current_block \in DataRegion
              /\ open[fd].inode_num < MAX_FILES_STORED
              /\ open[fd].current_block \in DistinctBlocks(open[fd].inode_num)

====
